---------------------------- MODULE Spec2Model ----------------------------
(***************************************************************************)
(* A model of bigquery/api/load_data_by_post.py: make_post builds one      *)
(* multipart/related body by string concatenation and POSTs it, poll_job   *)
(* polls the job's status until it is DONE, main composes the two.         *)
(*                                                                         *)
(* Text is modelled as TLA+ strings (sequences of characters): Len, SubSeq *)
(* and \o act on them character by character, as Python's len, slicing and *)
(* + do on str.                                                            *)
(***************************************************************************)
EXTENDS Integers, Sequences, FiniteSets, TLC

VARIABLES
    pc,          \* position of the run inside main / poll_job
    schema,      \* main's local `schema` (text of the schema file)
    data,        \* main's local `data` (text of the data file)
    project_id,  \* argument project_id
    dataset_id,  \* argument dataset_id
    table_id,    \* argument table_name, make_post's table_id
    posts,       \* the POST requests handed to http.request, in order
    resp,        \* (resp.status, content) returned by make_post, or NoValue
    job,         \* main's local `job` = json.loads(content), or NoValue
    request,     \* poll_job's local `request`: the key of the status get
    result,      \* poll_job's local `result`: result['status'] of the last get
    gets,        \* the keys of the status requests executed, in order
    responses,   \* the status objects those requests returned, in order
    sleeps,      \* the durations passed to time.sleep, in order
    output,      \* the lines printed, in order
    exc,         \* the exception that left main, or NoValue
    jobStatus    \* the remote job's status resource, or NoValue (no job)

vars == <<pc, schema, data, project_id, dataset_id, table_id, posts, resp, job,
          request, result, gets, responses, sleeps, output, exc, jobStatus>>

inputs == <<schema, data, project_id, dataset_id, table_id>>

NoValue == [none |-> TRUE]

-----------------------------------------------------------------------------
(* Text helpers: Python's s[i], `tok in s`, s.find(tok).                   *)

Char(s, i) == SubSeq(s, i, i)

StartsAt(s, i, tok) ==
    /\ i >= 1
    /\ i + Len(tok) - 1 <= Len(s)
    /\ SubSeq(s, i, i + Len(tok) - 1) = tok

Occurrences(s, tok) == {i \in 1..Len(s) : StartsAt(s, i, tok)}

Contains(s, tok) == Occurrences(s, tok) # {}

\* The least index >= from at which tok starts in s, 0 when there is none.
Find(s, tok, from) ==
    LET hits == {i \in Occurrences(s, tok) : i >= from}
    IN  IF hits = {} THEN 0 ELSE CHOOSE i \in hits : \A j \in hits : i <= j

-----------------------------------------------------------------------------
(* make_post's request body.                                               *)

\* A slip that would drop the end-of-body marker.
MakeBodyNoClose(s, d, p, ds, t) ==
    "--xxx\n" \o
    "Content-Type: application/json; charset=UTF-8\n" \o "\n" \o
    "{\n" \o
    "   \"configuration\": {\n" \o
    "     \"load\": {\n" \o
    "       \"schema\": {\n" \o
    "         \"fields\": " \o s \o "\n" \o
    "      },\n" \o
    "      \"destinationTable\": {\n" \o
    "        \"projectId\": \"" \o p \o "\",\n" \o
    "        \"datasetId\": \"" \o ds \o "\",\n" \o
    "        \"tableId\": \"" \o t \o "\"\n" \o
    "      }\n" \o
    "    }\n" \o
    "  }\n" \o
    "}\n" \o
    "--xxx\n" \o
    "Content-Type: application/octet-stream\n" \o
    "\n" \o
    d

\* A slip that would put the dataset and table identifiers in each other's place.
MakeBodySwapped(s, d, p, ds, t) ==
    "--xxx\n" \o
    "Content-Type: application/json; charset=UTF-8\n" \o "\n" \o
    "{\n" \o
    "   \"configuration\": {\n" \o
    "     \"load\": {\n" \o
    "       \"schema\": {\n" \o
    "         \"fields\": " \o s \o "\n" \o
    "      },\n" \o
    "      \"destinationTable\": {\n" \o
    "        \"projectId\": \"" \o p \o "\",\n" \o
    "        \"datasetId\": \"" \o t \o "\",\n" \o
    "        \"tableId\": \"" \o ds \o "\"\n" \o
    "      }\n" \o
    "    }\n" \o
    "  }\n" \o
    "}\n" \o
    "--xxx\n" \o
    "Content-Type: application/octet-stream\n" \o
    "\n" \o
    d \o
    "--xxx--\n"

\* `resource` of make_post.  str(schema) is schema itself: main passes a str.
MakeBody(s, d, p, ds, t) ==
    "--xxx\n" \o
    "Content-Type: application/json; charset=UTF-8\n" \o "\n" \o
    "{\n" \o
    "   \"configuration\": {\n" \o
    "     \"load\": {\n" \o
    "       \"schema\": {\n" \o
    "         \"fields\": " \o s \o "\n" \o
    "      },\n" \o
    "      \"destinationTable\": {\n" \o
    "        \"projectId\": \"" \o p \o "\",\n" \o
    "        \"datasetId\": \"" \o ds \o "\",\n" \o
    "        \"tableId\": \"" \o t \o "\"\n" \o
    "      }\n" \o
    "    }\n" \o
    "  }\n" \o
    "}\n" \o
    "--xxx\n" \o
    "Content-Type: application/octet-stream\n" \o
    "\n" \o
    d \o
    "--xxx--\n"

MakeUrl(p) == "https://www.googleapis.com/upload/bigquery/v2/projects/" \o p \o "/jobs"

MakeHeaders == [ContentType |-> "multipart/related; boundary=xxx"]

-----------------------------------------------------------------------------
(* json.loads.  A JSON value is a record [t, v]: t = "str" with v the      *)
(* decoded text, t = "obj" with v a function from member names to values   *)
(* (a repeated name keeps its last value, as Python's dict does), t =      *)
(* "arr" with v the tuple of elements, t = "lit" with v one of true,       *)
(* false, null.  Numbers, \b and \uXXXX are left out: no text of the model *)
(* holds a digit outside a string, a backspace or a \u escape.             *)
(* A parse result is [ok, val, pos]: pos is the index after the value.     *)

JFail == [ok |-> FALSE, val |-> NoValue, pos |-> 0]

JOk(v, p) == [ok |-> TRUE, val |-> v, pos |-> p]

\* The element of a set of one.  The({e : v \in {x}}) is e with v standing
\* for the value of x, computed once: a local variable of the parser.
The(S) == CHOOSE y \in S : TRUE

Whitespace == {" ", "\n", "\t", "\r"}

ControlChars == {"\n", "\t", "\r", "\f"}

RECURSIVE SkipWs(_, _)
SkipWs(s, i) ==
    IF i <= Len(s) /\ Char(s, i) \in Whitespace THEN SkipWs(s, i + 1) ELSE i

Unescape(c) ==
    CASE c = "\"" -> "\""
      [] c = "\\" -> "\\"
      [] c = "/"  -> "/"
      [] c = "n"  -> "\n"
      [] c = "t"  -> "\t"
      [] c = "r"  -> "\r"
      [] c = "f"  -> "\f"
      [] OTHER    -> ""

\* The index of the quote that closes the string whose text starts at index
\* i, 0 when the string is not closed or holds a raw control character or an
\* escape that is none.
RECURSIVE StringEnd(_, _)
StringEnd(s, i) ==
    IF i > Len(s) THEN 0
    ELSE IF Char(s, i) = "\"" THEN i
    ELSE IF Char(s, i) \in ControlChars THEN 0
    ELSE IF Char(s, i) = "\\"
         THEN IF i + 1 > Len(s) \/ Unescape(Char(s, i + 1)) = ""
              THEN 0
              ELSE StringEnd(s, i + 2)
    ELSE StringEnd(s, i + 1)

\* The text of the string literal body s[i..j]: escapes decoded.
RECURSIVE Decode(_, _, _)
Decode(s, i, j) ==
    IF i > j THEN ""
    ELSE IF Char(s, i) = "\\"
         THEN Unescape(Char(s, i + 1)) \o Decode(s, i + 2, j)
         ELSE Char(s, i) \o Decode(s, i + 1, j)

\* The string whose opening quote is at index i - 1.
ScanString(s, i) ==
    The({ IF j = 0 THEN JFail
          ELSE JOk([t |-> "str", v |-> Decode(s, i, j - 1)], j + 1)
          : j \in {StringEnd(s, i)} })

RECURSIVE ParseValue(_, _)
RECURSIVE ParseMembers(_, _, _)
RECURSIVE ParseElements(_, _, _)

\* What follows a member: the end of the object, or a comma and the next
\* member.  acc holds the members read, e is the index after the member.
AfterMember(s, e, acc) ==
    IF StartsAt(s, e, "}") THEN JOk([t |-> "obj", v |-> acc], e + 1)
    ELSE IF StartsAt(s, e, ",") THEN ParseMembers(s, e + 1, acc)
    ELSE JFail

\* The value of the member called name, after its colon at index c - 1.  A
\* name read before keeps its last value.
MemberValue(s, c, name, acc) ==
    The({ IF ~val.ok THEN JFail
          ELSE AfterMember(s, SkipWs(s, val.pos), (name :> val.val) @@ acc)
          : val \in {ParseValue(s, SkipWs(s, c))} })

\* The member whose name opens at index k.
Member(s, k, acc) ==
    The({ IF ~name.ok THEN JFail
          ELSE The({ IF ~StartsAt(s, c, ":") THEN JFail
                     ELSE MemberValue(s, c + 1, name.val.v, acc)
                     : c \in {SkipWs(s, name.pos)} })
          : name \in {ScanString(s, k + 1)} })

\* The members of an object from index i (a member name is due); acc holds
\* the members read so far.
ParseMembers(s, i, acc) ==
    The({ IF ~StartsAt(s, k, "\"") THEN JFail ELSE Member(s, k, acc)
          : k \in {SkipWs(s, i)} })

\* What follows an element: the end of the array, or a comma and the next
\* element.
AfterElement(s, e, acc) ==
    IF StartsAt(s, e, "]") THEN JOk([t |-> "arr", v |-> acc], e + 1)
    ELSE IF StartsAt(s, e, ",") THEN ParseElements(s, e + 1, acc)
    ELSE JFail

\* The elements of an array from index i (an element is due).
ParseElements(s, i, acc) ==
    The({ IF ~val.ok THEN JFail
          ELSE AfterElement(s, SkipWs(s, val.pos), Append(acc, val.val))
          : val \in {ParseValue(s, SkipWs(s, i))} })

\* An object or an array whose bracket is at index k - 1.
Braced(s, k, close, empty) ==
    IF StartsAt(s, k, close) THEN JOk(empty, k + 1)
    ELSE IF close = "}" THEN ParseMembers(s, k, <<>>)
    ELSE ParseElements(s, k, <<>>)

\* The value that starts at index i (whitespace already skipped).
ParseValue(s, i) ==
    CASE StartsAt(s, i, "{") ->
            The({ Braced(s, k, "}", [t |-> "obj", v |-> <<>>]) : k \in {SkipWs(s, i + 1)} })
      [] StartsAt(s, i, "[") ->
            The({ Braced(s, k, "]", [t |-> "arr", v |-> <<>>]) : k \in {SkipWs(s, i + 1)} })
      [] StartsAt(s, i, "\"")    -> ScanString(s, i + 1)
      [] StartsAt(s, i, "true")  -> JOk([t |-> "lit", v |-> "true"], i + 4)
      [] StartsAt(s, i, "false") -> JOk([t |-> "lit", v |-> "false"], i + 5)
      [] StartsAt(s, i, "null")  -> JOk([t |-> "lit", v |-> "null"], i + 4)
      [] OTHER -> JFail

\* json.loads(s): ok = FALSE stands for the ValueError it raises.
JsonLoads(s) ==
    The({ IF r.ok /\ SkipWs(s, r.pos) = Len(s) + 1
          THEN [ok |-> TRUE, val |-> r.val]
          ELSE [ok |-> FALSE, val |-> NoValue]
          : r \in {ParseValue(s, SkipWs(s, 1))} })

\* d[k] on a parsed value: ok = FALSE stands for the KeyError / TypeError.
HasKey(d, k) == d.t = "obj" /\ k \in DOMAIN d.v

Get(d, k) == d.v[k]


-----------------------------------------------------------------------------
(* "...{}".format(resp.status): the decimal digits of a natural number.    *)

Digit(d) == SubSeq("0123456789", d + 1, d + 1)

RECURSIVE IntToStr(_)
IntToStr(n) == IF n < 10 THEN Digit(n) ELSE IntToStr(n \div 10) \o Digit(n % 10)

-----------------------------------------------------------------------------
(* The world outside the program.                                          *)

\* The most calls of time.sleep a run of the model makes.
MaxSleeps == 2

\* The most chunks a data file of MakePostInputs is made of.
MaxDataChunks == 2

\* Status codes the POST may answer with.
PostStatuses == {200, 201, 404}

\* Bodies of a 200 answer: two job resources, a JSON object without a
\* jobReference, and a body that is not JSON.
OkContents ==
    { "{\"kind\": \"bigquery#job\", \"jobReference\": {\"projectId\": \"p\", \"jobId\": \"j1\"}}",
      "{\"jobReference\": {\"jobId\": \"j2\", \"projectId\": \"q\"}}\n",
      "{}",
      "<html>" }

ErrContents == { "{\"error\": {\"code\": true}}" }

Contents(st) == IF st = 200 THEN OkContents ELSE ErrContents

JobStates == {"PENDING", "RUNNING", "DONE"}

Rank(s) == CASE s = "PENDING" -> 0 [] s = "RUNNING" -> 1 [] s = "DONE" -> 2

ErrorResults == {[reason |-> "invalid"], [reason |-> "notFound"]}

\* result['status'] of a job resource: errorResult is a field it may lack.
Statuses ==
    {[state |-> s] : s \in JobStates} \cup
    {[state |-> s, errorResult |-> e] : s \in JobStates, e \in ErrorResults}

\* The remote job moves among non-terminal statuses and once into DONE,
\* which it never leaves.
JobAdvance ==
    /\ pc \notin {"done", "crashed"}
    /\ jobStatus # NoValue
    /\ jobStatus.state # "DONE"
    /\ \E s \in Statuses :
          /\ Rank(s.state) >= Rank(jobStatus.state)
          /\ s # jobStatus
          /\ jobStatus' = s
    /\ UNCHANGED <<pc, inputs, posts, resp, job, request, result, gets,
                   responses, sleeps, output, exc>>

-----------------------------------------------------------------------------
(* make_post                                                               *)

PostRequest ==
    [url     |-> MakeUrl(project_id),
     method  |-> "POST",
     body    |-> MakeBody(schema, data, project_id, dataset_id, table_id),
     headers |-> MakeHeaders]

\* main calls make_post, whose http.request answers with a status and a body.
MakePost ==
    /\ pc = "start"
    /\ posts' = Append(posts, PostRequest)
    /\ \E st \in PostStatuses : \E c \in Contents(st) :
          /\ resp' = [status |-> st, content |-> c]
          /\ jobStatus' = IF st = 200 THEN [state |-> "PENDING"] ELSE NoValue
    /\ pc' = "posted"
    /\ UNCHANGED <<inputs, job, request, result, gets, responses, sleeps,
                   output, exc>>

\* http.request raises (no answer): nothing in make_post or main catches it.
PostFails ==
    /\ pc = "start"
    /\ posts' = Append(posts, PostRequest)
    /\ exc' = [type |-> "HttpLib2Error"]
    /\ pc' = "crashed"
    /\ UNCHANGED <<inputs, resp, job, request, result, gets, responses,
                   sleeps, output, jobStatus>>

-----------------------------------------------------------------------------
(* main after the POST                                                     *)

\* A test that would take every 2xx answer for a success.
HttpOkAny2xx(status) == status >= 200 /\ status < 300

\* resp.status == 200
HttpOk(status) == status = 200

\* job = json.loads(content), on the 200 branch.
ParseJob ==
    /\ pc = "posted"
    /\ HttpOk(resp.status)
    /\ \E r \in {JsonLoads(resp.content)} :
          IF r.ok
          THEN /\ job' = r.val
               /\ pc' = "poll_job"
               /\ exc' = exc
          ELSE /\ job' = job
               /\ pc' = "crashed"
               /\ exc' = [type |-> "ValueError"]
    /\ UNCHANGED <<inputs, posts, resp, request, result, gets, responses,
                   sleeps, output, jobStatus>>

\* print("Http error code: {}".format(resp.status)), on the else branch.
PrintHttpError ==
    /\ pc = "posted"
    /\ ~HttpOk(resp.status)
    /\ output' = Append(output, "Http error code: " \o IntToStr(resp.status))
    /\ pc' = "done"
    /\ UNCHANGED <<inputs, posts, resp, job, request, result, gets,
                   responses, sleeps, exc, jobStatus>>

\* print("Success!") once poll_job has returned.
PrintSuccess ==
    /\ pc = "returned"
    /\ output' = Append(output, "Success!")
    /\ pc' = "done"
    /\ UNCHANGED <<inputs, posts, resp, job, request, result, gets,
                   responses, sleeps, exc, jobStatus>>

-----------------------------------------------------------------------------
(* poll_job                                                                *)

\* d[k] raises TypeError on a value that is no dict, KeyError on a dict
\* without k.
LookupError(d) == IF d.t = "obj" THEN "KeyError" ELSE "TypeError"

\* A slip that would key the status request by the project of the command
\* line instead of the one of the job reference.
JobKeyFromArgs(j) ==
    [projectId |-> [t |-> "str", v |-> project_id],
     jobId     |-> Get(Get(j, "jobReference"), "jobId")]

\* The arguments of bigquery.jobs().get(...).
JobKey(j) ==
    [projectId |-> Get(Get(j, "jobReference"), "projectId"),
     jobId     |-> Get(Get(j, "jobReference"), "jobId")]

\* The print and the construction of `request` that open poll_job.
PollJobEnter ==
    /\ pc = "poll_job"
    /\ output' = Append(output, "Waiting for job to finish...")
    /\ IF ~HasKey(job, "jobReference")
       THEN /\ exc' = [type |-> LookupError(job)]
            /\ pc' = "crashed"
            /\ request' = request
       ELSE LET ref == Get(job, "jobReference")
            IN  IF ~(HasKey(ref, "projectId") /\ HasKey(ref, "jobId"))
                THEN /\ exc' = [type |-> LookupError(ref)]
                     /\ pc' = "crashed"
                     /\ request' = request
                ELSE /\ request' = JobKey(job)
                     /\ pc' = "execute"
                     /\ exc' = exc
    /\ UNCHANGED <<inputs, posts, resp, job, result, gets, responses,
                   sleeps, jobStatus>>

\* result = request.execute(num_retries=2), answered with the job's status.
Execute ==
    /\ pc = "execute"
    /\ gets' = Append(gets, request)
    /\ result' = jobStatus
    /\ responses' = Append(responses, jobStatus)
    /\ pc' = "check"
    /\ UNCHANGED <<inputs, posts, resp, job, request, sleeps, output, exc,
                   jobStatus>>

\* A slip that would swallow the failure of a status get and poll again.
ExecuteFailsCaught ==
    /\ pc = "execute"
    /\ gets' = Append(gets, request)
    /\ result' = [state |-> "UNKNOWN"]
    /\ pc' = "check"
    /\ UNCHANGED <<inputs, posts, resp, job, request, responses, sleeps,
                   output, exc, jobStatus>>

\* request.execute raises once the client's own retries are used up; the
\* loop has no try, so the error leaves poll_job and main.
ExecuteFails ==
    /\ pc = "execute"
    /\ gets' = Append(gets, request)
    /\ exc' = [type |-> "HttpError"]
    /\ pc' = "crashed"
    /\ UNCHANGED <<inputs, posts, resp, job, request, result, responses,
                   sleeps, output, jobStatus>>

\* A slip that would take every state but PENDING for the terminal one.
IsDoneNotPending(r) == r.state # "PENDING"

\* A slip that would compare with the wrong case.
IsDoneLower(r) == r.state = "done"

\* result['status']['state'] == 'DONE'
IsDone(r) == r.state = "DONE"

\* 'errorResult' in result['status']
HasErrorResult(r) == "errorResult" \in DOMAIN r

\* A slip that would test errorResult before the state.
ShouldRaiseAnyState(r) == HasErrorResult(r)

\* The two nested ifs that lead to the raise.
ShouldRaise(r) == IsDone(r) /\ HasErrorResult(r)

\* A slip that would raise a fixed message instead of the job's error.
RaisedErrorFixed(r) == [type |-> "RuntimeError", payload |-> [reason |-> "invalid"]]

\* RuntimeError(result['status']['errorResult'])
RaisedError(r) == [type |-> "RuntimeError", payload |-> r.errorResult]

\* raise RuntimeError(result['status']['errorResult'])
RaiseJobError ==
    /\ pc = "check"
    /\ ShouldRaise(result)
    /\ exc' = RaisedError(result)
    /\ pc' = "crashed"
    /\ UNCHANGED <<inputs, posts, resp, job, request, result, gets,
                   responses, sleeps, output, jobStatus>>

\* print('Job complete.'); return
JobComplete ==
    /\ pc = "check"
    /\ IsDone(result)
    /\ ~ShouldRaise(result)
    /\ output' = Append(output, "Job complete.")
    /\ pc' = "returned"
    /\ UNCHANGED <<inputs, posts, resp, job, request, result, gets,
                   responses, sleeps, exc, jobStatus>>

\* The argument of time.sleep.
SleepSeconds == 1

\* A slip that would sleep twice per round.
SleepTwice ==
    /\ pc = "check"
    /\ ~IsDone(result)
    /\ Len(sleeps) < MaxSleeps
    /\ sleeps' = sleeps \o <<SleepSeconds, SleepSeconds>>
    /\ pc' = "execute"
    /\ UNCHANGED <<inputs, posts, resp, job, request, result, gets,
                   responses, output, exc, jobStatus>>

\* time.sleep(1) and back to the head of the loop.
Sleep ==
    /\ pc = "check"
    /\ ~IsDone(result)
    /\ Len(sleeps) < MaxSleeps
    /\ sleeps' = Append(sleeps, SleepSeconds)
    /\ pc' = "execute"
    /\ UNCHANGED <<inputs, posts, resp, job, request, result, gets,
                   responses, output, exc, jobStatus>>

-----------------------------------------------------------------------------
(* Specifications                                                          *)

\* The files and arguments of the runs of main.
MainInputs ==
    { <<"[{\"name\": \"n\", \"type\": \"STRING\"}]", "{\"n\": \"a\"}\n", "p", "d", "t">>,
      <<"[]", "", "q", "d", "t">> }

InitWith(I) ==
    /\ \E i \in I :
          /\ schema = i[1]
          /\ data = i[2]
          /\ project_id = i[3]
          /\ dataset_id = i[4]
          /\ table_id = i[5]
    /\ pc = "start"
    /\ posts = <<>>
    /\ resp = NoValue
    /\ job = NoValue
    /\ request = NoValue
    /\ result = NoValue
    /\ gets = <<>>
    /\ responses = <<>>
    /\ sleeps = <<>>
    /\ output = <<>>
    /\ exc = NoValue
    /\ jobStatus = NoValue

Init == InitWith(MainInputs)

\* The steps of the program itself.
Program ==
    \/ MakePost
    \/ PostFails
    \/ ParseJob
    \/ PrintHttpError
    \/ PollJobEnter
    \/ Execute
    \/ ExecuteFails
    \/ RaiseJobError
    \/ JobComplete
    \/ Sleep
    \/ PrintSuccess

Next == Program \/ JobAdvance

Spec == Init /\ [][Next]_vars

\* The program is one thread that runs until it ends: a step it can take is
\* taken.  Nothing is assumed of the remote job.
LiveSpec == Spec /\ WF_vars(Program)

\* Files and arguments for make_post taken alone: schema files that are JSON
\* and that are not, identifiers with and without a quote, a backslash or a
\* line break, and texts that hold the boundary token.
Schemas ==
    { "[]",
      "[{\"name\": \"n\", \"type\": \"STRING\"}]",
      "[\n  {\"name\": \"n\"}\n]\n",
      "[\"--xxx\"]",
      "[",
      "[] }, \"x\": {\"fields\": [true]" }

DataChunks == {"a,b\n", "-", "--xxx"}

RECURSIVE Concat(_)
Concat(q) == IF q = <<>> THEN "" ELSE Head(q) \o Concat(Tail(q))

\* The data files: up to MaxDataChunks chunks one after the other.
Datas == UNION {{Concat(q) : q \in [1..n -> DataChunks]} : n \in 0..MaxDataChunks}

ProjectIds == {"p", "a\"b", "a\\nb"}

DatasetIds == {"d", "d\nd"}

TableIds == {"t", "--xxx"}

MakePostInputs == Schemas \X Datas \X ProjectIds \X DatasetIds \X TableIds

InitBuild == InitWith(MakePostInputs)

\* make_post alone.
NextBuild == MakePost \/ PostFails

BuildSpec == InitBuild /\ [][NextBuild]_vars


-----------------------------------------------------------------------------
(* Properties of poll_job and main, checked under Spec and LiveSpec.       *)

Last(q) == q[Len(q)]

Printed(line) == \E i \in 1..Len(output) : output[i] = line

\* poll_job has returned normally (main then prints and ends).
PollReturned == pc = "returned" \/ (pc = "done" /\ gets # <<>>)

\* poll_job was entered: its first statement is this print.
PollInvoked == Printed("Waiting for job to finish...")

Raised(type) == exc # NoValue /\ exc.type = type

\* C1: poll_job returns normally only right after a status response whose
\* state is DONE and which has no errorResult: at the return the last
\* response received is such a one, it is the value the loop tested, and no
\* status request was issued after it.
C1_ReturnOnlyAfterCleanDone ==
    PollReturned =>
        /\ responses # <<>>
        /\ Last(responses).state = "DONE"
        /\ "errorResult" \notin DOMAIN Last(responses)
        /\ result = Last(responses)
        /\ Len(gets) = Len(responses)

C1_Witness ==
    /\ pc = "returned"
    /\ Len(responses) = 2
    /\ responses[1].state = "RUNNING"
    /\ responses[2] = [state |-> "DONE"]

\* C2: when k responses with a state other than DONE are followed by one
\* DONE response without errorResult, poll_job has issued exactly k+1 status
\* requests and slept exactly k times, 1 second each, and returns normally;
\* a sleep follows each response that is not DONE (while a response is being
\* tested there is one request per response and one sleep per earlier
\* response) and none follows the DONE one.
C2_RequestsAndSleeps ==
    /\ \A i \in 1..Len(sleeps) : sleeps[i] = 1
    /\ pc = "check" =>
          /\ Len(gets) = Len(responses)
          /\ Len(sleeps) = Len(responses) - 1
    /\ ( /\ responses # <<>>
         /\ Last(responses) = [state |-> "DONE"]
         /\ pc # "check" ) =>
          /\ PollReturned
          /\ exc = NoValue
          /\ \A i \in 1..(Len(responses) - 1) : responses[i].state # "DONE"
          /\ Len(gets) = Len(responses)
          /\ Len(sleeps) = Len(responses) - 1

C2_Witness ==
    /\ pc = "returned"
    /\ Len(responses) = 3
    /\ responses[1].state = "RUNNING"
    /\ responses[2].state = "RUNNING"
    /\ responses[3] = [state |-> "DONE"]
    /\ Len(gets) = 3
    /\ sleeps = <<1, 1>>

\* C3: once a response with state DONE and an errorResult field has been
\* tested, poll_job has raised a RuntimeError whose payload is that
\* errorResult, with no status request and no sleep after that response (a
\* first response: exactly one status request, no sleep).
C3_RaisesErrorResult ==
    ( /\ responses # <<>>
      /\ Last(responses).state = "DONE"
      /\ "errorResult" \in DOMAIN Last(responses)
      /\ pc # "check" ) =>
        /\ pc = "crashed"
        /\ exc = [type |-> "RuntimeError", payload |-> Last(responses).errorResult]
        /\ Len(gets) = Len(responses)
        /\ Len(sleeps) = Len(responses) - 1
        /\ ~Printed("Job complete.")
        /\ ~Printed("Success!")

C3_Witness ==
    /\ pc = "crashed"
    /\ responses = <<[state |-> "DONE", errorResult |-> [reason |-> "notFound"]]>>
    /\ exc = [type |-> "RuntimeError", payload |-> [reason |-> "notFound"]]
    /\ Len(gets) = 1
    /\ sleeps = <<>>

\* The decimal text of the status codes of the model.
StatusText == (200 :> "200") @@ (201 :> "201") @@ (404 :> "404")

Ended == pc \in {"done", "crashed"}

\* What C4 says of every status other than 200, of the success confirmation
\* and of an error raised by poll_job.
C4_Rest ==
    /\ PollInvoked => resp # NoValue /\ resp.status = 200
    /\ (Ended /\ resp # NoValue /\ resp.status # 200) =>
          /\ pc = "done"
          /\ output = <<"Http error code: " \o StatusText[resp.status]>>
          /\ Contains(output[1], StatusText[resp.status])
          /\ gets = <<>>
          /\ exc = NoValue
    /\ Printed("Success!") =>
          /\ PollReturned
          /\ exc = NoValue
          /\ Len(output) >= 2
          /\ output[Len(output) - 1] = "Job complete."
    /\ (pc = "crashed" /\ PollInvoked) =>
          /\ exc # NoValue
          /\ ~Printed("Success!")
          /\ \A i \in 1..Len(output) : ~Contains(output[i], "Http error code")

\* C4 as stated: the poller is invoked if and only if the POST answered 200
\* (and the rest of the claim).
C4_Original ==
    /\ (Ended /\ resp # NoValue) => (PollInvoked <=> resp.status = 200)
    /\ C4_Rest

\* The bodies of a 200 answer that are JSON texts.
JsonContents == OkContents \ {"<html>"}

\* C4, amended: the poller is invoked only if the POST answered 200, and
\* after a 200 answer it is invoked exactly when the body of the answer
\* parses as JSON; a body that does not parse makes json.loads raise a
\* ValueError that leaves main before the poller is called, with nothing
\* printed and no status request.  For every other status main prints a
\* message with the status code, issues no status request, prints no
\* confirmation and ends without raising; the confirmation is printed only
\* after poll_job returned normally, and when poll_job raises neither message
\* is printed and the error leaves main.
C4_PollIffOkAndJson ==
    /\ (Ended /\ resp # NoValue /\ resp.status = 200) =>
          /\ PollInvoked <=> resp.content \in JsonContents
          /\ ~PollInvoked =>
                /\ exc = [type |-> "ValueError"]
                /\ output = <<>>
                /\ gets = <<>>
    /\ C4_Rest

C4_Witness ==
    /\ pc = "done"
    /\ resp.status = 404
    /\ output = <<"Http error code: 404">>
    /\ gets = <<>>
    /\ exc = NoValue

\* The key the job reference of the POST's answer names.
AnswerKey ==
    LET ref == JsonLoads(resp.content).val.v["jobReference"]
    IN  [projectId |-> ref.v["projectId"], jobId |-> ref.v["jobId"]]

\* C7: a run issues exactly one POST, whatever its answer, and issues it
\* before any status request; every status request is keyed by the
\* {projectId, jobId} of that POST's answer, the same for all of them.
C7_OnePostOneKey ==
    /\ Len(posts) = (IF pc = "start" THEN 0 ELSE 1)
    /\ gets # <<>> =>
          /\ Len(posts) = 1
          /\ resp # NoValue
          /\ \A i \in 1..Len(gets) : gets[i] = AnswerKey

C7_Witness ==
    /\ Len(posts) = 1
    /\ Len(gets) = 3
    /\ project_id = "p"
    /\ gets[3] = [projectId |-> [t |-> "str", v |-> "q"],
                  jobId     |-> [t |-> "str", v |-> "j2"]]

\* C9: a status get that fails (a request without a response) ends poll_job
\* and main with that failure: no sleep and no status request follow it, and
\* neither 'Job complete.' nor the success confirmation is printed.
C9_FailedGetEndsRun ==
    Len(gets) > Len(responses) =>
        /\ pc = "crashed"
        /\ exc = [type |-> "HttpError"]
        /\ Len(gets) = Len(responses) + 1
        /\ Len(sleeps) = Len(responses)
        /\ ~Printed("Job complete.")
        /\ ~Printed("Success!")

C9_Witness ==
    /\ pc = "crashed"
    /\ exc = [type |-> "HttpError"]
    /\ Len(gets) = 2
    /\ Len(responses) = 1
    /\ Len(sleeps) = 1

\* C10: an errorResult on a response whose state is not DONE is ignored:
\* once such a response has been tested poll_job has slept 1 second after it
\* and is polling again (or that next get has failed), and a RuntimeError is
\* raised only on a response whose state is DONE and which has errorResult.
C10_ErrorResultIgnoredUnlessDone ==
    /\ ( /\ responses # <<>>
         /\ Last(responses).state # "DONE"
         /\ "errorResult" \in DOMAIN Last(responses)
         /\ pc # "check" ) =>
          /\ Len(sleeps) = Len(responses)
          /\ Last(sleeps) = 1
          /\ \/ pc = "execute" /\ exc = NoValue
             \/ pc = "crashed" /\ exc = [type |-> "HttpError"]
                               /\ Len(gets) = Len(responses) + 1
    /\ Raised("RuntimeError") =>
          /\ Last(responses).state = "DONE"
          /\ "errorResult" \in DOMAIN Last(responses)

C10_Witness ==
    /\ pc = "execute"
    /\ responses = <<[state |-> "RUNNING", errorResult |-> [reason |-> "invalid"]]>>
    /\ sleeps = <<1>>
    /\ exc = NoValue

InPoll == pc \in {"poll_job", "execute", "check"}

PollEnded == pc \in {"returned", "done", "crashed"}

JobIsDone == jobStatus # NoValue /\ jobStatus.state = "DONE"

\* C8: once the remote job is DONE, poll_job terminates (it returns or
\* raises); it ends by a return or by a job error only when the job is DONE,
\* so for a job that never is it never does; and while it has not ended the
\* number of status requests keeps growing (as far as the model's bound on
\* the sleeps lets the loop run).
C8_Termination ==
    /\ (InPoll /\ JobIsDone /\ Len(sleeps) < MaxSleeps) ~> PollEnded
    /\ []((PollReturned \/ Raised("RuntimeError")) => JobIsDone)
    /\ \A n \in 0..MaxSleeps :
          (pc \in {"execute", "check"} /\ Len(gets) = n /\ Len(sleeps) < MaxSleeps)
              ~> (Len(gets) > n \/ PollEnded)

C8_Witness ==
    /\ pc = "returned"
    /\ Len(gets) = MaxSleeps + 1
    /\ JobIsDone


-----------------------------------------------------------------------------
(* Properties of make_post's body, checked under BuildSpec.                *)

Body == posts[1].body

\* The places where a part boundary (--xxx not followed by --) and where the
\* closing boundary (--xxx--) start.
ClosingBoundaries(b) == Occurrences(b, "--xxx--")

PartBoundaries(b) == Occurrences(b, "--xxx") \ ClosingBoundaries(b)

Max(S) == CHOOSE i \in S : \A j \in S : j <= i

\* The body holds two part boundaries and one closing boundary, and from its
\* last part boundary on it is the boundary line, the octet-stream header,
\* the blank line, the data file byte for byte and the closing boundary line.
TwoPartsAndData(b) ==
    /\ Cardinality(PartBoundaries(b)) = 2
    /\ Cardinality(ClosingBoundaries(b)) = 1
    /\ SubSeq(b, Max(PartBoundaries(b)), Len(b))
          = "--xxx\nContent-Type: application/octet-stream\n\n" \o data \o "--xxx--\n"

\* C5 as stated: for any schema, data and identifiers.
C5_Original == posts # <<>> => TwoPartsAndData(Body)

NoBoundaryIn(x) == ~Contains(x, "--xxx")

\* C5, amended: when the boundary token --xxx occurs in none of the schema
\* text, the data and the three identifiers, the body holds exactly two part
\* boundaries and one closing boundary, and the data follows the blank line
\* of the octet-stream part byte for byte, up to the closing boundary.
C5_BoundariesAndData ==
    ( /\ posts # <<>>
      /\ NoBoundaryIn(schema) /\ NoBoundaryIn(data) /\ NoBoundaryIn(project_id)
      /\ NoBoundaryIn(dataset_id) /\ NoBoundaryIn(table_id) ) =>
        TwoPartsAndData(Body)

C5_Witness ==
    /\ pc = "posted"
    /\ posts # <<>>
    /\ data = "-a,b\n"
    /\ NoBoundaryIn(schema) /\ NoBoundaryIn(project_id)
    /\ NoBoundaryIn(dataset_id) /\ NoBoundaryIn(table_id)
    /\ TwoPartsAndData(Body)

\* The JSON part of a body, as its reader finds it: the text between the
\* first blank line and the next line that starts with the boundary.
ConfigPart(b) ==
    The({ The({ IF i = 0 \/ j = 0 THEN "" ELSE SubSeq(b, i + 2, j - 1)
                : j \in {Find(b, "\n--xxx", i + 2)} })
          : i \in {Find(b, "\n\n", 1)} })

JStr(x) == [t |-> "str", v |-> x]

\* The destinationTable object of the three identifiers.
Destination ==
    [t |-> "obj",
     v |-> ("projectId" :> JStr(project_id)) @@ ("datasetId" :> JStr(dataset_id))
           @@ ("tableId" :> JStr(table_id))]

\* The parsed configuration has the schema file's JSON value as
\* configuration.load.schema.fields and the identifiers as
\* configuration.load.destinationTable.
RoundTrip(cfg) ==
    /\ cfg.ok
    /\ JsonLoads(schema).ok
    /\ HasKey(cfg.val, "configuration")
    /\ \E c \in {Get(cfg.val, "configuration")} :
         /\ HasKey(c, "load")
         /\ \E l \in {Get(c, "load")} :
              /\ DOMAIN l.v = {"schema", "destinationTable"}
              /\ HasKey(Get(l, "schema"), "fields")
              /\ Get(Get(l, "schema"), "fields") = JsonLoads(schema).val
              /\ Get(l, "destinationTable") = Destination

\* C6 as stated: for any schema text and identifiers.
C6_Original == posts # <<>> => RoundTrip(JsonLoads(ConfigPart(Body)))

\* An identifier that a JSON string literal holds as it is: no quote, no
\* backslash, no control character.
PlainId(x) == \A i \in 1..Len(x) : Char(x, i) \notin ({"\"", "\\"} \cup ControlChars)

\* C6, amended: when the schema text is itself valid JSON and the three
\* identifiers hold no double quote, backslash or control character, parsing
\* the JSON part of the body yields the schema's JSON value as
\* configuration.load.schema.fields and {projectId: P, datasetId: Ds,
\* tableId: T} as configuration.load.destinationTable; and make_post leaves
\* its inputs as they were.
C6_RoundTrip ==
    /\ []( ( /\ posts # <<>>
             /\ JsonLoads(schema).ok
             /\ PlainId(project_id) /\ PlainId(dataset_id) /\ PlainId(table_id) ) =>
           RoundTrip(JsonLoads(ConfigPart(Body))) )
    /\ [][inputs' = inputs]_vars

C6_Witness ==
    /\ pc = "posted"
    /\ posts # <<>>
    /\ schema = "[\n  {\"name\": \"n\"}\n]\n"
    /\ project_id = "p" /\ dataset_id = "d" /\ table_id = "--xxx"
    /\ RoundTrip(JsonLoads(ConfigPart(Body)))

=============================================================================
